---------------------------- MODULE Spec2Model ----------------------------
(* A model of backend/nlp_service.py (class NLPService): model loading,    *)
(* the single-document analysis pipeline, batch analysis, and the pure     *)
(* helpers the pipeline is built from (POS projection, decision rule,      *)
(* risk interpretation, linguistic feature extraction), and of the request *)
(* handlers of backend/main.py that keep patients, assessments and         *)
(* analyses in the database.                                               *)
(*                                                                         *)
(* Strings are sequences of one-character strings, so that str.replace,    *)
(* str.strip, len and ' '.join are computed character by character.        *)
(* Probabilities are integers in percent (80 stands for 0.8).              *)
EXTENDS Integers, Sequences, FiniteSets, TLC

VARIABLES
    models_loaded,      \* self.models_loaded
    nlp,                \* self.nlp
    model_control,      \* self.model_control
    weights_control,    \* self.weights_control
    model_alz,          \* self.model_alz
    weights_alz,        \* self.weights_alz
    vectorizer,         \* self.vectorizer (with its tokenizer attribute)
    call,               \* the frame of the analyze_text call in progress / last finished
    batch,              \* the frame of the batch_analyze call in progress / last finished
    arg,                \* argument of the helper under test (helper specifications)
    ret,                \* value returned by the helper under test
    load_call,          \* how the last load_models call ended
    calls,              \* the frames of concurrent analyze_text calls, by thread
    db,                 \* the rows of the patients, assessments and nlp_analyses tables
    http                \* the request handled last and the response it was given

service == <<models_loaded, nlp, model_control, weights_control,
             model_alz, weights_alz, vectorizer>>
vars == <<models_loaded, nlp, model_control, weights_control,
          model_alz, weights_alz, vectorizer, call, batch, arg, ret,
          load_call, calls, db, http>>

---------------------------------------------------------------------------
(* Bounds of the model *)

MaxTokens == 2      \* longest annotated token sequence given to the projector
MaxPad == 1         \* most whitespace characters on either side of a text
MaxExtra == 1       \* a text body has at most MinTextLen + MaxExtra characters
MaxBatch == 2       \* longest list given to batch_analyze
MaxChars == 3       \* longest text given to the vectorizer's tokenizer
MaxFeatureTokens == 3   \* longest annotation given to feature extraction
NumThreads == 2     \* request threads calling analyze_text at the same time
MaxRows == 3        \* most rows of the three tables together

---------------------------------------------------------------------------
(* Strings *)

None == "None"

SP == " "

Whitespace == {" ", "\t", "\n"}

\* n copies of the character c
RECURSIVE Rep(_, _)
Rep(c, n) == IF n <= 0 THEN <<>> ELSE <<c>> \o Rep(c, n - 1)

\* str.lstrip() / str.rstrip() / str.strip() with no argument
RECURSIVE LStrip(_)
LStrip(s) == IF s # <<>> /\ Head(s) \in Whitespace THEN LStrip(Tail(s)) ELSE s

RECURSIVE RStrip(_)
RStrip(s) ==
    IF s # <<>> /\ s[Len(s)] \in Whitespace
    THEN RStrip(SubSeq(s, 1, Len(s) - 1))
    ELSE s

Strip(s) == RStrip(LStrip(s))

\* str.replace(old, new): leftmost, non-overlapping occurrences, old non-empty
RECURSIVE Replace(_, _, _)
Replace(s, old, new) ==
    IF Len(s) < Len(old) THEN s
    ELSE IF SubSeq(s, 1, Len(old)) = old
         THEN new \o Replace(SubSeq(s, Len(old) + 1, Len(s)), old, new)
         ELSE <<Head(s)>> \o Replace(Tail(s), old, new)

\* ' '.join(parts)
RECURSIVE JoinSpace(_)
JoinSpace(parts) ==
    IF parts = <<>> THEN <<>>
    ELSE IF Len(parts) = 1 THEN parts[1]
    ELSE parts[1] \o <<SP>> \o JoinSpace(Tail(parts))

---------------------------------------------------------------------------
(* _safe_tokenize, the tokenizer load_models installs on the vectorizer *)

BACKSLASH == "\\"

\* string.punctuation (the grave accent named by its code point)
AsciiPunctuation ==
    {"!", "\"", "#", "$", "%", "&", "'", "(", ")", "*", "+", ",", "-", ".",
     "/", ":", ";", "<", "=", ">", "?", "@", "[", BACKSLASH, "]", "^", "_",
     "U+0060", "{", "|", "}", "~"}

\* the marks the pattern lists after string.punctuation, each named by its
\* code point
ExtendedMarks ==
    {"U+00A8", "U+00AB", "U+00BB", "U+00AE", "U+00B4", "U+00B7", "U+00BA",
     "U+00BD", "U+00BE", "U+00BF", "U+00A1", "U+00A7", "U+00A3", "U+20A4"}

\* the characters the compiled character class matches: inside the class
\* the backslash of string.punctuation escapes the "]" after it and is not
\* a member itself, and ",-." is a range holding just those three
PatternClass == (AsciiPunctuation \ {BACKSLASH}) \cup ExtendedMarks

\* what the template r' \\1 ' expands to for the match c: the escaped
\* backslash is a literal backslash and the 1 after it a literal digit
SubTemplate(c) == <<SP, BACKSLASH, "1", SP>>

\* pattern.sub(r' \\1 ', text)
RECURSIVE PatternSub(_)
PatternSub(text) ==
    IF text = <<>> THEN <<>>
    ELSE (IF Head(text) \in PatternClass
          THEN SubTemplate(Head(text))
          ELSE <<Head(text)>>) \o PatternSub(Tail(text))

\* the first whitespace-free run of s, s not starting with whitespace
RECURSIVE FirstRun(_)
FirstRun(s) ==
    IF s = <<>> \/ Head(s) \in Whitespace THEN <<>>
    ELSE <<Head(s)>> \o FirstRun(Tail(s))

\* str.split() with no argument
RECURSIVE Split(_)
Split(s) ==
    IF LStrip(s) = <<>> THEN <<>>
    ELSE <<FirstRun(LStrip(s))>> \o
         Split(SubSeq(LStrip(s), Len(FirstRun(LStrip(s))) + 1, Len(LStrip(s))))

\* _safe_tokenize(text)
safe_tokenize(text) == Split(PatternSub(text))

---------------------------------------------------------------------------
(* self.pos_dictionary, in insertion order (the order dict.items() yields) *)

pos_dictionary == <<
    [word |-> <<"A","D","J">>,         initial |-> <<"a","d","j","e","c","t","i","v","e">>],
    [word |-> <<"A","D","P">>,         initial |-> <<"a","d","p","o","s","i","t","i","o","n">>],
    [word |-> <<"A","D","V">>,         initial |-> <<"a","d","v","e","r","b">>],
    [word |-> <<"A","U","X">>,         initial |-> <<"a","u","x","i","l","i","a","r","y">>],
    [word |-> <<"C","O","N","J">>,     initial |-> <<"c","o","n","j","u","n","c","t","i","o","n">>],
    [word |-> <<"C","C","O","N","J">>, initial |-> <<"c","o","o","r","d","i","n","a","t","i","n","g"," ",
                                                     "c","o","n","j","u","n","c","t","i","o","n">>],
    [word |-> <<"D","E","T">>,         initial |-> <<"d","e","t","e","r","m","i","n","e","r">>],
    [word |-> <<"I","N","T","J">>,     initial |-> <<"i","n","t","e","r","j","e","c","t","i","o","n">>],
    [word |-> <<"N","O","U","N">>,     initial |-> <<"n","o","u","n">>],
    [word |-> <<"N","U","M">>,         initial |-> <<"n","u","m","e","r","a","l">>],
    [word |-> <<"P","A","R","T">>,     initial |-> <<"p","a","r","t","i","c","l","e">>],
    [word |-> <<"P","R","O","N">>,     initial |-> <<"p","r","o","n","o","u","n">>],
    [word |-> <<"P","R","O","P","N">>, initial |-> <<"p","r","o","p","e","r"," ","n","o","u","n">>],
    [word |-> <<"P","U","N","C","T">>, initial |-> <<"p","u","n","c","t","u","a","t","i","o","n">>],
    [word |-> <<"S","C","O","N","J">>, initial |-> <<"s","u","b","o","r","d","i","n","a","t","i","n","g"," ",
                                                     "c","o","n","j","u","n","c","t","i","o","n">>],
    [word |-> <<"S","Y","M">>,         initial |-> <<"s","y","m","b","o","l">>],
    [word |-> <<"V","E","R","B">>,     initial |-> <<"v","e","r","b">>],
    [word |-> <<"X">>,                 initial |-> <<"o","t","h","e","r">>],
    [word |-> <<"S","P","A","C","E">>, initial |-> <<"s","p","a","c","e">>] >>

\* the keys of self.pos_dictionary
PosCodes == { pos_dictionary[i].word : i \in 1..Len(pos_dictionary) }

\* a coarse tag the annotator can emit that is not a key of the table
UnknownCode == <<"E","O","L">>

\* the empty tag of a token the annotator has not tagged
NoTagCode == <<>>

\* the values of token.pos_ that are not keys of the table
UnknownCodes == {UnknownCode, NoTagCode}

\* every value token.pos_ takes in the model
AnnotatorCodes == PosCodes \cup UnknownCodes


---------------------------------------------------------------------------
(* The annotator's output.  A Doc is what self.nlp(text) returns: the      *)
(* tokens in order, each with the attributes the code reads, and the       *)
(* number of sentences list(doc.sents) has.                                *)

Token(text, pos, is_space, is_punct, is_alpha) ==
    [text |-> text, pos_ |-> pos, is_space |-> is_space,
     is_punct |-> is_punct, is_alpha |-> is_alpha]

\* _tagged_dialogue, after self.nlp(dialogue) has returned doc:
\* ' '.join(' '.join((token.text, token.pos_)) for token in doc)
tagged_dialogue(doc) ==
    JoinSpace([i \in 1..Len(doc.tokens) |->
                  doc.tokens[i].text \o <<SP>> \o doc.tokens[i].pos_])

\* the loop of _pos_complete over the first k entries of pos_dictionary
RECURSIVE pos_complete_upto(_, _)
pos_complete_upto(address, k) ==
    IF k = 0 THEN address
    ELSE Replace(pos_complete_upto(address, k - 1),
                 pos_dictionary[k].word, pos_dictionary[k].initial)

\* _pos_complete
pos_complete(dialogue) == pos_complete_upto(dialogue, Len(pos_dictionary))

\* mutant of pos_text_complete: a tag the table lacks is looked up with the
\* default "other"
pos_text_complete_default(doc) ==
    pos_complete(tagged_dialogue(
        [doc EXCEPT !.tokens =
            [i \in 1..Len(doc.tokens) |->
                IF doc.tokens[i].pos_ \in UnknownCodes
                THEN [doc.tokens[i] EXCEPT !.pos_ = <<"X">>]
                ELSE doc.tokens[i]]]))

\* _pos_text_complete, given the annotation of its text
pos_text_complete(doc) == pos_complete(tagged_dialogue(doc))

---------------------------------------------------------------------------
(* Decision rule and risk interpretation *)

HighConfidence == 80        \* 0.8
MediumConfidence == 60      \* 0.6

\* mutant of decide_prediction: the comparison is not strict
decide_prediction_ge(prob_control, prob_alz) ==
    IF prob_control >= prob_alz THEN 1 ELSE 0

\* mutant of decide_prediction: 1 stands for the condition classifier winning
decide_prediction_alz(prob_control, prob_alz) ==
    IF prob_alz > prob_control THEN 1 ELSE 0

\* prediction = 1 if prob_control[0][1] > prob_alz[0][1] else 0
decide_prediction(prob_control, prob_alz) ==
    IF prob_control > prob_alz THEN 1 ELSE 0

\* mutant of decide_confidence: the probability of the winning class
decide_confidence_winner(prob_control, prob_alz) ==
    IF prob_control > prob_alz THEN prob_control ELSE prob_alz

\* confidence = float(prob_control[0][1])
decide_confidence(prob_control, prob_alz) == prob_control

\* mutant of risk_level_of: the 0.8 threshold is exclusive
risk_level_of_strict(prediction, confidence) ==
    IF confidence > HighConfidence
    THEN IF prediction = 1 THEN "High" ELSE "Low"
    ELSE "Medium"

\* the risk tier of _interpret_results
risk_level_of(prediction, confidence) ==
    IF confidence >= HighConfidence
    THEN IF prediction = 1 THEN "High" ELSE "Low"
    ELSE IF confidence >= MediumConfidence THEN "Medium"
    ELSE "Medium"

\* mutant of interpretation_of: the template follows the risk tier
interpretation_of_by_risk(prediction, confidence, control_prob, alz_prob, risk_level) ==
    [template |-> IF risk_level = "High" THEN "cognitive decline" ELSE "normal ranges",
     confidence |-> confidence,
     alz_prob |-> alz_prob,
     control_prob |-> control_prob,
     risk_level |-> risk_level]

\* the narrative of _interpret_results: the template chosen and the values
\* the f-string substitutes into it
interpretation_of(prediction, confidence, control_prob, alz_prob, risk_level) ==
    [template |-> IF prediction = 1 THEN "cognitive decline" ELSE "normal ranges",
     confidence |-> confidence,
     alz_prob |-> alz_prob,
     control_prob |-> control_prob,
     risk_level |-> risk_level]

\* _interpret_results: returns (risk_level, interpretation)
interpret_results(prediction, confidence, control_prob, alz_prob) ==
    LET risk_level == risk_level_of(prediction, confidence)
    IN  <<risk_level,
          interpretation_of(prediction, confidence, control_prob, alz_prob, risk_level)>>

---------------------------------------------------------------------------
(* Linguistic feature extraction *)

UpperChars == <<"A","B","C","D","E","F","G","H","I","J","K","L","M",
                "N","O","P","Q","R","S","T","U","V","W","X","Y","Z">>
LowerChars == <<"a","b","c","d","e","f","g","h","i","j","k","l","m",
                "n","o","p","q","r","s","t","u","v","w","x","y","z">>

\* str.lower()
LowerChar(c) ==
    IF \E i \in 1..Len(UpperChars) : UpperChars[i] = c
    THEN LowerChars[CHOOSE i \in 1..Len(UpperChars) : UpperChars[i] = c]
    ELSE c
Lower(s) == [i \in 1..Len(s) |-> LowerChar(s[i])]

\* round(num / den, digits) as an integer count of 10^-digits units
\* (scale = 10^digits); ties go to the even neighbour
RoundRatio(num, den, scale) ==
    LET q == (num * scale) \div den
        r == (num * scale) % den
    IN  IF 2 * r < den THEN q
        ELSE IF 2 * r > den THEN q + 1
        ELSE IF q % 2 = 0 THEN q ELSE q + 1

\* the record the except branch of _extract_linguistic_features returns
default_features ==
    [word_count |-> 0, sentence_count |-> 0, avg_words_per_sentence |-> 0,
     lexical_diversity |-> 0, pos_distribution |-> <<>>]

\* mutant of avg_words_per_sentence_of: the division is not guarded, so
\* that without sentences it raises and the local is never assigned (-1)
avg_words_per_sentence_of_unguarded(word_count, sentence_count) ==
    IF sentence_count # 0 THEN RoundRatio(word_count, sentence_count, 100) ELSE -1

\* round(word_count / sentence_count if sentence_count > 0 else 0, 2),
\* in hundredths
avg_words_per_sentence_of(word_count, sentence_count) ==
    IF sentence_count > 0 THEN RoundRatio(word_count, sentence_count, 100) ELSE 0

\* mutant of lexical_diversity_of: tokens per type instead of types per token
lexical_diversity_of_inverted(n_unique, n_words) ==
    IF n_unique > 0 THEN RoundRatio(n_words, n_unique, 1000) ELSE 0

\* mutant of lexical_diversity_of: the guard asks for more than one word
lexical_diversity_of_several(n_unique, n_words) ==
    IF n_words > 1 THEN RoundRatio(n_unique, n_words, 1000) ELSE 0

\* round(len(unique_words) / len(words) if len(words) > 0 else 0, 3),
\* in thousandths
lexical_diversity_of(n_unique, n_words) ==
    IF n_words > 0 THEN RoundRatio(n_unique, n_words, 1000) ELSE 0

\* mutant of word_tokens: punctuation is counted as words
word_tokens_with_punct(doc) ==
    { i \in 1..Len(doc.tokens) : ~doc.tokens[i].is_space }

\* the positions of the tokens word_count counts
word_tokens(doc) ==
    { i \in 1..Len(doc.tokens) : ~doc.tokens[i].is_space /\ ~doc.tokens[i].is_punct }

\* mutant of pos_tokens: the tags of punctuation are counted too
pos_tokens_with_punct(doc) ==
    { i \in 1..Len(doc.tokens) : ~doc.tokens[i].is_space }

\* the positions of the tokens whose tags pos_tags holds
pos_tokens(doc) ==
    { i \in 1..Len(doc.tokens) : ~doc.tokens[i].is_space /\ ~doc.tokens[i].is_punct }

\* the try branch of _extract_linguistic_features, given doc = self.nlp(text);
\* avg_words_per_sentence is in hundredths, lexical_diversity in thousandths
extract_linguistic_features(doc) ==
    LET word_count == Cardinality(word_tokens(doc))
        sentence_count == doc.n_sents
        alpha == { i \in 1..Len(doc.tokens) :
                      /\ ~doc.tokens[i].is_space
                      /\ ~doc.tokens[i].is_punct
                      /\ doc.tokens[i].is_alpha }
        unique_words == { Lower(doc.tokens[i].text) : i \in alpha }
        pos_tags == { doc.tokens[i].pos_ : i \in pos_tokens(doc) }
    IN  [word_count |-> word_count,
         sentence_count |-> sentence_count,
         avg_words_per_sentence |->
             avg_words_per_sentence_of(word_count, sentence_count),
         lexical_diversity |->
             lexical_diversity_of(Cardinality(unique_words), Cardinality(alpha)),
         pos_distribution |->
             [p \in pos_tags |->
                 Cardinality({ i \in pos_tokens(doc) : doc.tokens[i].pos_ = p })]]

---------------------------------------------------------------------------
(* Inputs and the outputs of the loaded artifacts *)

MinTextLen == 10

\* text = None
TextNone == <<"None">>

\* body lengths around the minimum, and the empty body
BodyLens == {0} \cup ((MinTextLen - 2)..(MinTextLen + MaxExtra))

\* the texts given to analyze_text: a body, padded with whitespace on either
\* side, or no text at all
Texts ==
    {TextNone} \cup
    { Rep(SP, l) \o Rep("a", n) \o Rep(SP, r) :
        l \in 0..MaxPad, r \in 0..MaxPad, n \in BodyLens }

\* positive-class probabilities predict_proba can return, in percent
Probs == {0, 30, 59, 60, 61, 79, 80, 81, 100}

Word_and == <<"a","n","d">>
Word_X == <<"X">>
Word_dot == <<".">>

\* annotations self.nlp can return for an accepted text
Doc_words ==
    [tokens |-> << Token(Word_and, <<"C","C","O","N","J">>, FALSE, FALSE, TRUE),
                   Token(Word_X, <<"N","O","U","N">>, FALSE, FALSE, TRUE),
                   Token(Word_dot, <<"P","U","N","C","T">>, FALSE, TRUE, FALSE) >>,
     n_sents |-> 1]
Doc_punct ==
    [tokens |-> << Token(Word_dot, <<"P","U","N","C","T">>, FALSE, TRUE, FALSE) >>,
     n_sents |-> 1]
Docs == {Doc_words, Doc_punct}

\* the texts, annotations and probabilities batch_analyze is run on
BatchTexts == {<<>>, Rep("a", MinTextLen)}
BatchDocs == {Doc_words}
BatchProbs == {30, 90}

\* all lists of at most n elements of S
ListsUpTo(S, n) == UNION { [1..k -> S] : k \in 0..n }

\* the texts the installed tokenizer is run on: a letter, a punctuation
\* mark of each kind, a backslash and a space
TokenizeChars == {"a", ".", "U+00BF", BACKSLASH, SP}
TokenizeTexts == ListsUpTo(TokenizeChars, MaxChars)

\* the annotations feature extraction is run on: words that differ in case
\* only, another word, a number, a punctuation mark and a space; an
\* annotation without tokens has no sentence, any other has at least one
\* and at most one per token
Word_And == <<"A","n","d">>
Word_3 == <<"3">>
FeatureTokens ==
    { Token(Word_and, <<"C","C","O","N","J">>, FALSE, FALSE, TRUE),
      Token(Word_And, <<"C","C","O","N","J">>, FALSE, FALSE, TRUE),
      Token(Word_X, <<"N","O","U","N">>, FALSE, FALSE, TRUE),
      Token(Word_3, <<"N","U","M">>, FALSE, FALSE, FALSE),
      Token(Word_dot, <<"P","U","N","C","T">>, FALSE, TRUE, FALSE),
      Token(<<SP>>, <<"S","P","A","C","E">>, TRUE, FALSE, FALSE) }
FeatureDocs ==
    { d \in [tokens : ListsUpTo(FeatureTokens, MaxFeatureTokens),
             n_sents : 0..MaxFeatureTokens] :
        IF d.tokens = <<>> THEN d.n_sents = 0
        ELSE d.n_sents >= 1 /\ d.n_sents <= Len(d.tokens) }

\* the token sequences the projector is run on
ProjectWords == {Word_and, Word_X}
ProjectTokens ==
    { Token(w, p, FALSE, FALSE, TRUE) : w \in ProjectWords, p \in AnnotatorCodes }
ProjectDocs ==
    { [tokens |-> ts, n_sents |-> 1] : ts \in ListsUpTo(ProjectTokens, MaxTokens) }

\* the arguments _interpret_results is run on
InterpretArgs ==
    [prediction : {0, 1}, confidence : 0..100,
     control_prob : {30, 80}, alz_prob : {30, 80}]

NoDoc == [tokens |-> <<>>, n_sents |-> 0]

---------------------------------------------------------------------------
(* The frame of an analyze_text call: its position, its locals, the steps  *)
(* of the pipeline it has run so far (trace), the messages it has passed   *)
(* to logger.error (logged), and what it returned or raised.  Numeric      *)
(* locals not yet assigned hold -1.                                        *)

NoResult == [none |-> TRUE]

NoFeatures == [none |-> TRUE]

NoInterpretation == [none |-> TRUE]

NoCall ==
    [pc |-> "idle", caller |-> "", text |-> <<>>, exc |-> "", trace |-> <<>>,
     logged |-> <<>>, doc |-> NoDoc, preprocessed_text |-> <<>>, text_vector |-> None,
     prob_control |-> -1, prob_alz |-> -1,
     prediction |-> -1, confidence |-> -1,
     control_probability |-> -1, alzheimer_probability |-> -1,
     linguistic_features |-> NoFeatures,
     risk_level |-> "", clinical_interpretation |-> NoInterpretation,
     result |-> NoResult]

Finished == {"idle", "returned", "raised"}

\* the frame c after it has begun a step of the pipeline
Log(c, step) == [c EXCEPT !.trace = Append(@, step)]

\* `raise` out of analyze_text
Raise(c, e) == [c EXCEPT !.pc = "raised", !.exc = e]

\* the guards of analyze_text
text_rejected(text) ==
    \/ text = TextNone
    \/ text = <<>>
    \/ Len(Strip(text)) < MinTextLen

\* mutant of analyze_text_enter: the text is checked after it was annotated
analyze_text_enter_late(text, caller) ==
    LET c == [NoCall EXCEPT !.caller = caller, !.text = text]
    IN  IF ~models_loaded
        THEN Raise(c, "RuntimeError: Models not loaded")
        ELSE IF text_rejected(text)
        THEN Raise(Log(c, "annotate"),
                   "ValueError: Text must be at least 10 characters long")
        ELSE [c EXCEPT !.pc = "preprocess"]

\* entry of analyze_text(text): the two guards before the try block
analyze_text_enter(text, caller) ==
    LET c == [NoCall EXCEPT !.caller = caller, !.text = text]
    IN  IF ~models_loaded
        THEN Raise(c, "RuntimeError: Models not loaded")
        ELSE IF text_rejected(text)
        THEN Raise(c, "ValueError: Text must be at least 10 characters long")
        ELSE [c EXCEPT !.pc = "preprocess"]

\* the record analyze_text returns (processing_time_seconds, a wall-clock
\* reading, is left out)
result_of(c) ==
    [prediction |-> c.prediction,
     confidence |-> c.confidence,
     control_probability |-> c.control_probability,
     alzheimer_probability |-> c.alzheimer_probability,
     risk_level |-> c.risk_level,
     clinical_interpretation |-> c.clinical_interpretation,
     linguistic_features |-> c.linguistic_features,
     preprocessed_text |-> c.preprocessed_text]

---------------------------------------------------------------------------
(* The steps of analyze_text's try block, as updates of the frame c *)

\* logger.error(f"Error extracting linguistic features: ...")
FeatureErrorLog == "Error extracting linguistic features"

\* logger.error(f"Error in text analysis: ...")
AnalysisErrorLog == "Error in text analysis"

\* 1. preprocessed_text = self._pos_text_complete(text), the annotator
\*    having returned doc for the text
step_preprocess(c, doc) ==
    [Log(Log(c, "annotate"), "project") EXCEPT
        !.pc = "vectorize",
        !.doc = doc,
        !.preprocessed_text = pos_text_complete(doc)]

\* mutant of step_vectorize: a second transform after the first
step_vectorize_retried(c) ==
    [Log(Log(c, "vectorize"), "vectorize") EXCEPT
        !.pc = "score_control", !.text_vector = "FeatureVector"]

\* 2. text_vector = self.vectorizer.transform([preprocessed_text])
step_vectorize(c) ==
    [Log(c, "vectorize") EXCEPT !.pc = "score_control", !.text_vector = "FeatureVector"]

\* 3a. prob_control = self.model_control.predict_proba(...), p its [0][1]
step_score_control(c, p) ==
    [Log(c, "score_control") EXCEPT !.pc = "score_alz", !.prob_control = p]

\* 3b. prob_alz = self.model_alz.predict_proba(...), p its [0][1]
step_score_alz(c, p) ==
    [Log(c, "score_alz") EXCEPT !.pc = "decide", !.prob_alz = p]

\* 4. the final prediction and the three floats
step_decide(c) ==
    [Log(c, "decide") EXCEPT
        !.pc = "extract",
        !.prediction = decide_prediction(c.prob_control, c.prob_alz),
        !.confidence = decide_confidence(c.prob_control, c.prob_alz),
        !.control_probability = c.prob_control,
        !.alzheimer_probability = c.prob_alz]

\* mutant of step_extract: the except branch logs and raises again
step_extract_raises(c, failed) ==
    IF failed
    THEN [Log(c, "extract_features") EXCEPT
            !.pc = "raised",
            !.exc = "Exception: feature extraction",
            !.logged = Append(@, FeatureErrorLog)]
    ELSE [Log(c, "extract_features") EXCEPT
            !.pc = "interpret",
            !.linguistic_features = extract_linguistic_features(c.doc)]

\* 5. linguistic_features = self._extract_linguistic_features(text, ...);
\*    failed says that something in its try block raised
step_extract(c, failed) ==
    [Log(c, "extract_features") EXCEPT
        !.pc = "interpret",
        !.logged = IF failed THEN Append(@, FeatureErrorLog) ELSE @,
        !.linguistic_features =
            IF failed THEN default_features ELSE extract_linguistic_features(c.doc)]

\* 6. risk_level, clinical_interpretation = self._interpret_results(...)
step_interpret(c) ==
    LET r == interpret_results(c.prediction, c.confidence,
                               c.control_probability, c.alzheimer_probability)
    IN  [Log(c, "interpret") EXCEPT
            !.pc = "return",
            !.risk_level = r[1],
            !.clinical_interpretation = r[2]]

\* return {...}
step_return(c) == [c EXCEPT !.pc = "returned", !.result = result_of(c)]

\* mutant of step_fail: the except branch logs and returns a default result
step_fail_default(c, step, e) ==
    [Log(c, step) EXCEPT
        !.pc = "returned",
        !.logged = Append(@, AnalysisErrorLog),
        !.result = [prediction |-> 0, confidence |-> 0,
                    control_probability |-> 0, alzheimer_probability |-> 0,
                    risk_level |-> "Medium",
                    clinical_interpretation |-> NoInterpretation,
                    linguistic_features |-> default_features,
                    preprocessed_text |-> c.preprocessed_text]]

\* except Exception as e: ... raise e, the step named having raised
step_fail(c, step, e) ==
    Raise([Log(c, step) EXCEPT !.logged = Append(@, AnalysisErrorLog)], e)

---------------------------------------------------------------------------
(* load_models *)

\* the loads of load_models, in order; each can raise
LoadStages == <<"spacy", "model_control.pkl", "model_alz.pkl", "vectorizer.pkl">>

\* the tokenizer attribute of the unpickled vectorizer: missing, None, or
\* the callable it was fitted with
PickledTokenizers == {"absent", "None", "fitted"}

NoVectorizer == [artifact |-> None, tokenizer |-> "absent", transform |-> FALSE]

\* what the pickled artifacts can be: fit for the pipeline, or lacking
\* something the pipeline needs of them
ArtifactKinds ==
    {"compatible", "weights of another dimension",
     "classifier without predict_proba", "vectorizer without transform"}

\* no load_models call has ended yet
NoLoad == [pc |-> "idle", exc |-> ""]

\* _fix_vectorizer_tokenizer
fix_vectorizer_tokenizer(v) ==
    IF v.tokenizer \notin {"absent", "None"}
    THEN [v EXCEPT !.tokenizer = "_safe_tokenize"]
    ELSE v

\* self.models_loaded once load_models has run `done` of its stages
models_loaded_after(done) ==
    IF done >= Len(LoadStages) THEN TRUE ELSE models_loaded

\* load_models, the first `done` stages of which succeed (4: all of them),
\* the stage after them raising; tok is the tokenizer attribute of the
\* pickled vectorizer and kind says what the pickled artifacts are
LoadModels(done, tok, kind) ==
    /\ call.pc \in Finished
    /\ batch.pc \in Finished
    /\ nlp' = IF done >= 1 THEN "en_core_web_sm" ELSE nlp
    /\ model_control' = IF done >= 2 THEN "model_control" ELSE model_control
    /\ weights_control' =
          IF done >= 2
          THEN IF kind = "weights of another dimension"
               THEN "weights_control of another dimension"
               ELSE "weights_control"
          ELSE weights_control
    /\ model_alz' =
          IF done >= 3
          THEN IF kind = "classifier without predict_proba"
               THEN "model_alz without predict_proba"
               ELSE "model_alz"
          ELSE model_alz
    /\ weights_alz' = IF done >= 3 THEN "weights_alz" ELSE weights_alz
    /\ vectorizer' =
          IF done >= 4
          THEN fix_vectorizer_tokenizer(
                   [artifact |-> "vectorizer.pkl", tokenizer |-> tok,
                    transform |-> kind # "vectorizer without transform"])
          ELSE vectorizer
    /\ models_loaded' = models_loaded_after(done)
    /\ load_call' = IF done >= Len(LoadStages)
                    THEN [pc |-> "returned", exc |-> ""]
                    ELSE [pc |-> "raised", exc |-> LoadStages[done + 1]]
    /\ UNCHANGED <<call, batch, arg, ret, calls, db, http>>

---------------------------------------------------------------------------
(* analyze_text, called on its own *)

AnalyzeText(text) ==
    /\ call.pc \in Finished
    /\ batch.pc \in Finished
    /\ call' = analyze_text_enter(text, "caller")
    /\ UNCHANGED <<service, batch, arg, ret, load_call, calls, db, http>>

Preprocess(D) ==
    /\ call.pc = "preprocess"
    /\ IF nlp = None
       THEN call' = step_fail(call, "annotate", "RuntimeError: spaCy model not loaded")
       ELSE \E doc \in D : call' = step_preprocess(call, doc)
    /\ UNCHANGED <<service, batch, arg, ret, load_call, calls, db, http>>

PreprocessFails ==
    /\ call.pc = "preprocess"
    /\ call' = step_fail(call, "annotate", "Exception: annotation")
    /\ UNCHANGED <<service, batch, arg, ret, load_call, calls, db, http>>

\* mutant of Vectorize: the request installs the tokenizer itself before it
\* transforms the text
Vectorize_patching ==
    /\ call.pc = "vectorize"
    /\ vectorizer.transform
    /\ call' = step_vectorize(call)
    /\ vectorizer' = [vectorizer EXCEPT !.tokenizer = "_safe_tokenize of the request"]
    /\ UNCHANGED <<models_loaded, nlp, model_control, weights_control, model_alz,
                   weights_alz, batch, arg, ret, load_call, calls, db, http>>

Vectorize ==
    /\ call.pc = "vectorize"
    /\ vectorizer.transform
    /\ call' = step_vectorize(call)
    /\ UNCHANGED <<service, batch, arg, ret, load_call, calls, db, http>>

VectorizeFails ==
    /\ call.pc = "vectorize"
    /\ call' = step_fail(call, "vectorize", "Exception: vectorization")
    /\ UNCHANGED <<service, batch, arg, ret, load_call, calls, db, http>>

ScoreControl(P) ==
    /\ call.pc = "score_control"
    /\ model_control = "model_control"
    /\ weights_control = "weights_control"
    /\ \E p \in P : call' = step_score_control(call, p)
    /\ UNCHANGED <<service, batch, arg, ret, load_call, calls, db, http>>

ScoreControlFails ==
    /\ call.pc = "score_control"
    /\ call' = step_fail(call, "score_control", "Exception: control classifier")
    /\ UNCHANGED <<service, batch, arg, ret, load_call, calls, db, http>>

ScoreAlz(P) ==
    /\ call.pc = "score_alz"
    /\ model_alz = "model_alz"
    /\ weights_alz = "weights_alz"
    /\ \E p \in P : call' = step_score_alz(call, p)
    /\ UNCHANGED <<service, batch, arg, ret, load_call, calls, db, http>>

ScoreAlzFails ==
    /\ call.pc = "score_alz"
    /\ call' = step_fail(call, "score_alz", "Exception: condition classifier")
    /\ UNCHANGED <<service, batch, arg, ret, load_call, calls, db, http>>

Decide ==
    /\ call.pc = "decide"
    /\ call' = step_decide(call)
    /\ UNCHANGED <<service, batch, arg, ret, load_call, calls, db, http>>

ExtractFeatures ==
    /\ call.pc = "extract"
    /\ \E failed \in BOOLEAN : call' = step_extract(call, failed)
    /\ UNCHANGED <<service, batch, arg, ret, load_call, calls, db, http>>

Interpret ==
    /\ call.pc = "interpret"
    /\ call' = step_interpret(call)
    /\ UNCHANGED <<service, batch, arg, ret, load_call, calls, db, http>>

Return ==
    /\ call.pc = "return"
    /\ call' = step_return(call)
    /\ UNCHANGED <<service, batch, arg, ret, load_call, calls, db, http>>

---------------------------------------------------------------------------
(* batch_analyze: i is enumerate's index of the text at hand; outcomes     *)
(* records, for each text already handled, how its analyze_text call ended *)

NoBatch == [pc |-> "idle", texts |-> <<>>, i |-> 0, results |-> <<>>,
            exc |-> "", outcomes |-> <<>>]

\* mutant of batch_entry: the error record carries the one-based number
batch_entry_one_based(c, i) ==
    IF c.pc = "returned"
    THEN c.result
    ELSE [error |-> c.exc, text_index |-> i + 1]

\* what the loop body appends to results once analyze_text(text) has ended
\* in frame c: its result, or the error record of the except branch
batch_entry(c, i) ==
    IF c.pc = "returned"
    THEN c.result
    ELSE [error |-> c.exc, text_index |-> i]

BatchAnalyze(texts) ==
    /\ call.pc \in Finished
    /\ batch.pc \in Finished
    /\ batch' = IF ~models_loaded
                THEN [NoBatch EXCEPT !.pc = "raised", !.texts = texts,
                                     !.exc = "RuntimeError: Models not loaded"]
                ELSE [NoBatch EXCEPT !.pc = "loop", !.texts = texts]
    /\ UNCHANGED <<service, call, arg, ret, load_call, calls, db, http>>

\* result = self.analyze_text(text)
BatchCall ==
    /\ batch.pc = "loop"
    /\ batch.i < Len(batch.texts)
    /\ call' = analyze_text_enter(batch.texts[batch.i + 1], "batch_analyze")
    /\ batch' = [batch EXCEPT !.pc = "in_call"]
    /\ UNCHANGED <<service, arg, ret, load_call, calls, db, http>>

\* mutant of BatchCollect: a text that failed leaves no entry
BatchCollect_skip ==
    /\ batch.pc = "in_call"
    /\ call.pc \in {"returned", "raised"}
    /\ batch' = [batch EXCEPT
                    !.pc = "loop",
                    !.results = IF call.pc = "returned"
                                THEN Append(@, batch_entry(call, batch.i))
                                ELSE @,
                    !.outcomes = Append(@, [text |-> call.text, pc |-> call.pc,
                                            result |-> call.result]),
                    !.i = @ + 1]
    /\ UNCHANGED <<service, call, arg, ret, load_call, calls, db, http>>

\* results.append(...) and the next turn of the loop
BatchCollect ==
    /\ batch.pc = "in_call"
    /\ call.pc \in {"returned", "raised"}
    /\ batch' = [batch EXCEPT
                    !.pc = "loop",
                    !.results = Append(@, batch_entry(call, batch.i)),
                    !.outcomes = Append(@, [text |-> call.text, pc |-> call.pc,
                                            result |-> call.result]),
                    !.i = @ + 1]
    /\ UNCHANGED <<service, call, arg, ret, load_call, calls, db, http>>

\* return results
BatchReturn ==
    /\ batch.pc = "loop"
    /\ batch.i = Len(batch.texts)
    /\ batch' = [batch EXCEPT !.pc = "returned"]
    /\ UNCHANGED <<service, call, arg, ret, load_call, calls, db, http>>

---------------------------------------------------------------------------
(* analyze_text called by several request threads on the one service of    *)
(* main.py: calls[t] is the frame of thread t's call, a step of a thread    *)
(* is one step of the try block on its own frame                            *)

Threads == 1..NumThreads

ThreadCall(t, text) ==
    /\ calls[t].pc \in Finished
    /\ calls' = [calls EXCEPT ![t] = analyze_text_enter(text, "request thread")]
    /\ UNCHANGED <<service, call, batch, arg, ret, load_call, db, http>>

\* mutant of ThreadPreprocess: the annotation is kept on the service, and
\* the projection reads the one a call left there last
ThreadPreprocess_shared(t, D) ==
    /\ calls[t].pc = "preprocess"
    /\ nlp # None
    /\ \E doc \in D, u \in Threads :
          calls' = [calls EXCEPT
                      ![t] = [step_preprocess(calls[t], doc) EXCEPT
                                 !.preprocessed_text =
                                     pos_text_complete(IF calls[u].doc = NoDoc
                                                       THEN doc ELSE calls[u].doc)]]
    /\ UNCHANGED <<service, call, batch, arg, ret, load_call, db, http>>

ThreadPreprocess(t, D) ==
    /\ calls[t].pc = "preprocess"
    /\ nlp # None
    /\ \E doc \in D : calls' = [calls EXCEPT ![t] = step_preprocess(calls[t], doc)]
    /\ UNCHANGED <<service, call, batch, arg, ret, load_call, db, http>>

ThreadVectorize(t) ==
    /\ calls[t].pc = "vectorize"
    /\ vectorizer.transform
    /\ calls' = [calls EXCEPT ![t] = step_vectorize(calls[t])]
    /\ UNCHANGED <<service, call, batch, arg, ret, load_call, db, http>>

ThreadScoreControl(t, P) ==
    /\ calls[t].pc = "score_control"
    /\ model_control = "model_control"
    /\ weights_control = "weights_control"
    /\ \E p \in P : calls' = [calls EXCEPT ![t] = step_score_control(calls[t], p)]
    /\ UNCHANGED <<service, call, batch, arg, ret, load_call, db, http>>

ThreadScoreAlz(t, P) ==
    /\ calls[t].pc = "score_alz"
    /\ model_alz = "model_alz"
    /\ weights_alz = "weights_alz"
    /\ \E p \in P : calls' = [calls EXCEPT ![t] = step_score_alz(calls[t], p)]
    /\ UNCHANGED <<service, call, batch, arg, ret, load_call, db, http>>

\* the step a frame is about to run, by its position in the try block
StepAt ==
    [preprocess |-> "annotate", vectorize |-> "vectorize",
     score_control |-> "score_control", score_alz |-> "score_alz"]

\* the step thread t is about to run raises
ThreadFails(t) ==
    /\ calls[t].pc \in DOMAIN StepAt
    /\ calls' = [calls EXCEPT
                    ![t] = step_fail(calls[t], StepAt[calls[t].pc], "Exception: pipeline")]
    /\ UNCHANGED <<service, call, batch, arg, ret, load_call, db, http>>

\* mutant of ThreadDecide: the decision reads the probabilities from the
\* service, where the scores of another thread's call may have replaced
\* the ones this call was given
ThreadDecide_shared(t) ==
    /\ calls[t].pc = "decide"
    /\ \E u \in Threads :
          /\ calls[u].prob_control >= 0
          /\ calls[u].prob_alz >= 0
          /\ calls' = [calls EXCEPT
                          ![t] = [step_decide([calls[t] EXCEPT
                                                  !.prob_control = calls[u].prob_control,
                                                  !.prob_alz = calls[u].prob_alz])
                                  EXCEPT !.prob_control = calls[t].prob_control,
                                         !.prob_alz = calls[t].prob_alz]]
    /\ UNCHANGED <<service, call, batch, arg, ret, load_call, db, http>>

ThreadDecide(t) ==
    /\ calls[t].pc = "decide"
    /\ calls' = [calls EXCEPT ![t] = step_decide(calls[t])]
    /\ UNCHANGED <<service, call, batch, arg, ret, load_call, db, http>>

ThreadExtractFeatures(t) ==
    /\ calls[t].pc = "extract"
    /\ \E failed \in BOOLEAN :
          calls' = [calls EXCEPT ![t] = step_extract(calls[t], failed)]
    /\ UNCHANGED <<service, call, batch, arg, ret, load_call, db, http>>

ThreadInterpret(t) ==
    /\ calls[t].pc = "interpret"
    /\ calls' = [calls EXCEPT ![t] = step_interpret(calls[t])]
    /\ UNCHANGED <<service, call, batch, arg, ret, load_call, db, http>>

ThreadReturn(t) ==
    /\ calls[t].pc = "return"
    /\ calls' = [calls EXCEPT ![t] = step_return(calls[t])]
    /\ UNCHANGED <<service, call, batch, arg, ret, load_call, db, http>>

\* analyze_text(text) run from entry to return with nothing else running,
\* the annotator returning doc, the classifiers pc and pa, and failed
\* saying whether feature extraction raised
analyze_text_alone(text, doc, pc, pa, failed) ==
    step_return(
      step_interpret(
        step_extract(
          step_decide(
            step_score_alz(
              step_score_control(
                step_vectorize(
                  step_preprocess(analyze_text_enter(text, "request thread"), doc)),
                pc),
              pa)),
          failed)))

---------------------------------------------------------------------------
(* The request handlers of main.py.  Every handler is a coroutine without  *)
(* an await, and its database calls are synchronous: the event loop of the *)
(* one server process runs a handler from its first statement to its       *)
(* response before it starts the handler of another request.  A table is   *)
(* the sequence of its rows in the order of their integer primary keys.    *)

\* the tables before the first request
NoRecords == [patients |-> <<>>, assessments |-> <<>>, nlp_analyses |-> <<>>]

\* no request handled yet
\* the NULL of an integer column (the ids of rows start at 1), and the
\* patient_id of a request that names no patient (None and "" are both
\* false in the "if request.patient_id" of the handler)
NULL == 0
NoPatientId == <<>>

NoRequest ==
    [endpoint |-> "", user |-> 0, patient_id |-> NoPatientId, status |-> 0,
     detail |-> "", body |-> <<>>]

\* User.id of the doctors get_current_user resolves the tokens to
Users == {1, 2}

\* the patient data a request carries (PatientCreate)
PatientData == {"Alice Johnson", "Robert Williams"}

\* the status an assessment is created with (AssessmentStatus)
AssessmentStatuses == {"in_progress", "completed"}

DecimalDigits == <<"0", "1", "2", "3", "4", "5", "6", "7", "8", "9">>

\* the decimal digits of n >= 0
RECURSIVE Decimal(_)
Decimal(n) ==
    IF n < 10 THEN <<DecimalDigits[n + 1]>>
    ELSE Decimal(n \div 10) \o <<DecimalDigits[(n % 10) + 1]>>

\* f"{prefix}{n:03d}": n in decimal, filled with zeros to three digits
formatted_id(prefix, n) == prefix \o Rep("0", 3 - Len(Decimal(n))) \o Decimal(n)

\* mutant of next_number: the id of the last row, not the one after it
next_number_of_last(rows) ==
    IF rows = <<>> THEN 1 ELSE rows[Len(rows)].id

\* last = db.query(T).order_by(T.id.desc()).first();
\* the number put in the identifier: last.id + 1, and 1 for "P001",
\* "A001", "NLP001" when the table is empty
next_number(rows) ==
    IF rows = <<>> THEN 1 ELSE rows[Len(rows)].id + 1

\* the primary key the database gives the row added to the table
autoincrement(rows) ==
    IF rows = <<>> THEN 1 ELSE rows[Len(rows)].id + 1

\* db.add(row); db.commit(): the table with the row, or the IntegrityError
\* of the unique column key or of a NULL in the NOT NULL column notnull
IntegrityUnique == "IntegrityError: UNIQUE constraint failed"
IntegrityNotNull == "IntegrityError: NOT NULL constraint failed"

commit_error(rows, row, key, notnull) ==
    IF row[notnull] = NULL THEN IntegrityNotNull
    ELSE IF \E k \in 1..Len(rows) : rows[k][key] = row[key] THEN IntegrityUnique
    ELSE ""

\* db.query(Patient).filter(Patient.patient_id == patient_id,
\*                          Patient.doctor_id == current_user.id)
owned_patients_any(patient_id, user) ==
    SelectSeq(db.patients, LAMBDA row : row.patient_id = patient_id)
owned_patients(patient_id, user) ==
    SelectSeq(db.patients,
              LAMBDA row : row.patient_id = patient_id /\ row.doctor_id = user)

\* raise HTTPException(status_code=404, detail="Patient not found")
NotFound == "Patient not found"

\* the sequence s from its last element to its first
RECURSIVE Reverse(_)
Reverse(s) == IF s = <<>> THEN <<>> ELSE Reverse(Tail(s)) \o <<Head(s)>>

\* the response a handler gives to the request of user for patient_id
Response(endpoint, user, patient_id, status, detail, body) ==
    [endpoint |-> endpoint, user |-> user, patient_id |-> patient_id,
     status |-> status, detail |-> detail, body |-> body]

\* the patient identifiers requests name: those generated so far and the
\* next one, which no patient has yet
RequestedIds ==
    { formatted_id(<<"P">>, n) : n \in 1..(Len(db.patients) + 1) }

\* what nlp_service.analyze_text(request.text) returns to the handler for
\* a text the request schema lets through
HandlerTexts == {Rep("a", MinTextLen)}
HandlerResults ==
    { analyze_text_alone(text, doc, pc, pa, FALSE).result :
        text \in HandlerTexts, doc \in BatchDocs, pc \in {30}, pa \in {90} }

\* the exception of an analyze_text call that raises, as the handler's
\* except branch reports it
AnalysisFailed == "Error processing text: analysis failed"
AnalyzeNotFound == "Error processing text: 404: Patient not found"
AnalyzeNotNull == "Error processing text: IntegrityError: NOT NULL constraint failed"
AnalyzeNotUnique == "Error processing text: IntegrityError: UNIQUE constraint failed"

\* the tables hold fewer rows than the model lets them grow to
RoomForRecord ==
    Len(db.patients) + Len(db.assessments) + Len(db.nlp_analyses) < MaxRows

\* POST /patients
CreatePatient(user, data) ==
    /\ RoomForRecord
    /\ LET row == [id |-> autoincrement(db.patients),
                   patient_id |-> formatted_id(<<"P">>, next_number(db.patients)),
                   doctor_id |-> user,
                   is_active |-> TRUE,
                   data |-> data]
           err == commit_error(db.patients, row, "patient_id", "doctor_id")
       IN  IF err # ""
           THEN /\ db' = db
                /\ http' = Response("create_patient", user, NoPatientId, 500, err, <<>>)
           ELSE /\ db' = [db EXCEPT !.patients = Append(@, row)]
                /\ http' = Response("create_patient", user, NoPatientId, 201, "", <<row>>)
    /\ UNCHANGED <<service, call, batch, arg, ret, load_call, calls>>

\* GET /patients (skip and limit at their defaults)
GetPatients(user) ==
    /\ http' = Response("get_patients", user, NoPatientId, 200, "",
                        SelectSeq(db.patients,
                                  LAMBDA row : row.doctor_id = user /\ row.is_active))
    /\ UNCHANGED <<service, call, batch, arg, ret, load_call, calls, db>>

\* GET /patients/{patient_id}
GetPatient(user, patient_id) ==
    /\ http' = IF owned_patients(patient_id, user) = <<>>
               THEN Response("get_patient", user, patient_id, 404, NotFound, <<>>)
               ELSE Response("get_patient", user, patient_id, 200, "",
                             <<owned_patients(patient_id, user)[1]>>)
    /\ UNCHANGED <<service, call, batch, arg, ret, load_call, calls, db>>

\* PUT /patients/{patient_id}
UpdatePatient(user, patient_id, data) ==
    /\ IF owned_patients(patient_id, user) = <<>>
       THEN /\ db' = db
            /\ http' = Response("update_patient", user, patient_id, 404, NotFound, <<>>)
       ELSE LET patient == owned_patients(patient_id, user)[1]
                updated == [patient EXCEPT !.data = data]
            IN  /\ db' = [db EXCEPT !.patients[patient.id] = updated]
                /\ http' = Response("update_patient", user, patient_id, 200, "",
                                    <<updated>>)
    /\ UNCHANGED <<service, call, batch, arg, ret, load_call, calls>>

\* POST /nlp/analyze; patient_id is NoPatientId when the request leaves it out,
\* outcome is the result of nlp_service.analyze_text or "raised"
PostNlpAnalyze(user, patient_id, outcome) ==
    /\ LET found == IF patient_id = NoPatientId THEN <<>> ELSE owned_patients(patient_id, user)
           row == [id |-> autoincrement(db.nlp_analyses),
                   analysis_id |->
                       formatted_id(<<"N", "L", "P">>, next_number(db.nlp_analyses)),
                   patient_id |-> IF found = <<>> THEN NULL ELSE found[1].id,
                   assessment_id |-> NULL,
                   prediction |-> outcome.prediction,
                   confidence_score |-> outcome.confidence,
                   risk_level |-> outcome.risk_level]
           err == commit_error(db.nlp_analyses, row, "analysis_id", "patient_id")
       IN  IF patient_id # NoPatientId /\ found = <<>>
           THEN /\ db' = db
                /\ http' = Response("analyze_text", user, patient_id, 500,
                                    AnalyzeNotFound, <<>>)
           ELSE IF outcome = [raised |-> TRUE]
           THEN /\ db' = db
                /\ http' = Response("analyze_text", user, patient_id, 500,
                                    AnalysisFailed, <<>>)
           ELSE IF err # ""
           THEN /\ db' = db
                /\ http' = Response("analyze_text", user, patient_id, 500,
                                    IF err = IntegrityNotNull THEN AnalyzeNotNull
                                    ELSE AnalyzeNotUnique,
                                    <<>>)
           ELSE /\ RoomForRecord
                /\ db' = [db EXCEPT !.nlp_analyses = Append(@, row)]
                /\ http' = Response("analyze_text", user, patient_id, 200, "",
                                    <<[analysis_id |-> row.analysis_id,
                                       result |-> outcome]>>)
    /\ UNCHANGED <<service, call, batch, arg, ret, load_call, calls>>

\* GET /nlp/analyses/{patient_id} (skip and limit at their defaults)
GetPatientAnalyses(user, patient_id) ==
    /\ http' =
          IF owned_patients(patient_id, user) = <<>>
          THEN Response("get_patient_analyses", user, patient_id, 404, NotFound, <<>>)
          ELSE Response("get_patient_analyses", user, patient_id, 200, "",
                        Reverse(SelectSeq(db.nlp_analyses,
                                LAMBDA row :
                                    row.patient_id = owned_patients(patient_id, user)[1].id)))
    /\ UNCHANGED <<service, call, batch, arg, ret, load_call, calls, db>>

\* POST /assessments
CreateAssessment(user, patient_id, assessment_status) ==
    /\ IF owned_patients(patient_id, user) = <<>>
       THEN /\ db' = db
            /\ http' = Response("create_assessment", user, patient_id, 404, NotFound, <<>>)
       ELSE LET row == [id |-> autoincrement(db.assessments),
                        assessment_id |->
                            formatted_id(<<"A">>, next_number(db.assessments)),
                        patient_id |-> owned_patients(patient_id, user)[1].id,
                        status |-> assessment_status]
                err == commit_error(db.assessments, row, "assessment_id", "patient_id")
            IN  IF err # ""
                THEN /\ db' = db
                     /\ http' = Response("create_assessment", user, patient_id, 500,
                                         err, <<>>)
                ELSE /\ RoomForRecord
                     /\ db' = [db EXCEPT !.assessments = Append(@, row)]
                     /\ http' = Response("create_assessment", user, patient_id, 201,
                                         "", <<row>>)
    /\ UNCHANGED <<service, call, batch, arg, ret, load_call, calls>>

\* GET /assessments/{patient_id} (no assessment_type filter, skip and limit
\* at their defaults)
GetPatientAssessments(user, patient_id) ==
    /\ http' =
          IF owned_patients(patient_id, user) = <<>>
          THEN Response("get_patient_assessments", user, patient_id, 404, NotFound, <<>>)
          ELSE Response("get_patient_assessments", user, patient_id, 200, "",
                        Reverse(SelectSeq(db.assessments,
                                LAMBDA row :
                                    row.patient_id = owned_patients(patient_id, user)[1].id)))
    /\ UNCHANGED <<service, call, batch, arg, ret, load_call, calls, db>>

\* GET /progress/{patient_id}: the completed assessments and the analyses
\* of the patient, from which the counts and timelines are computed
GetPatientProgress(user, patient_id) ==
    /\ http' =
          IF owned_patients(patient_id, user) = <<>>
          THEN Response("get_patient_progress", user, patient_id, 404, NotFound, <<>>)
          ELSE LET patient == owned_patients(patient_id, user)[1]
               IN  Response("get_patient_progress", user, patient_id, 200, "",
                            SelectSeq(db.assessments,
                                      LAMBDA row : /\ row.patient_id = patient.id
                                                   /\ row.status = "completed")
                            \o SelectSeq(db.nlp_analyses,
                                         LAMBDA row : row.patient_id = patient.id))
    /\ UNCHANGED <<service, call, batch, arg, ret, load_call, calls, db>>

---------------------------------------------------------------------------
(* Specifications *)

NoRet == [done |-> FALSE]

\* NLPService.__init__
Init ==
    /\ models_loaded = FALSE
    /\ nlp = None
    /\ model_control = None
    /\ weights_control = None
    /\ model_alz = None
    /\ weights_alz = None
    /\ vectorizer = NoVectorizer
    /\ call = NoCall
    /\ batch = NoBatch
    /\ arg = <<>>
    /\ ret = NoRet
    /\ load_call = NoLoad
    /\ calls = <<>>
    /\ db = NoRecords
    /\ http = NoRequest

\* load_models on artifacts that fit the pipeline
Load == \E done \in 0..Len(LoadStages) : LoadModels(done, "fitted", "compatible")

\* load_models on any artifacts
LoadAny ==
    \E done \in 0..Len(LoadStages), tok \in PickledTokenizers, kind \in ArtifactKinds :
        LoadModels(done, tok, kind)

\* load_models and single analyze_text calls
Next ==
    \/ Load
    \/ \E text \in Texts : AnalyzeText(text)
    \/ Preprocess(Docs)
    \/ PreprocessFails
    \/ Vectorize
    \/ VectorizeFails
    \/ ScoreControl(Probs)
    \/ ScoreControlFails
    \/ ScoreAlz(Probs)
    \/ ScoreAlzFails
    \/ Decide
    \/ ExtractFeatures
    \/ Interpret
    \/ Return

Spec == Init /\ [][Next]_vars

\* load_models and batch_analyze calls
NextBatch ==
    \/ Load
    \/ \E texts \in ListsUpTo(BatchTexts, MaxBatch) : BatchAnalyze(texts)
    \/ BatchCall
    \/ BatchCollect
    \/ BatchReturn
    \/ Preprocess(BatchDocs)
    \/ PreprocessFails
    \/ Vectorize
    \/ VectorizeFails
    \/ ScoreControl(BatchProbs)
    \/ ScoreControlFails
    \/ ScoreAlz(BatchProbs)
    \/ ScoreAlzFails
    \/ Decide
    \/ ExtractFeatures
    \/ Interpret
    \/ Return

SpecBatch == Init /\ [][NextBatch]_vars

\* load_models called any number of times on any artifacts, and single
\* analyze_text calls
NextLoad ==
    \/ LoadAny
    \/ \E text \in BatchTexts : AnalyzeText(text)
    \/ Preprocess(BatchDocs)
    \/ PreprocessFails
    \/ Vectorize
    \/ VectorizeFails
    \/ ScoreControl(BatchProbs)
    \/ ScoreControlFails
    \/ ScoreAlz(BatchProbs)
    \/ ScoreAlzFails
    \/ Decide
    \/ ExtractFeatures
    \/ Interpret
    \/ Return

SpecLoad == Init /\ [][NextLoad]_vars

\* the artifacts and the flag once load_models has succeeded
ServiceLoaded ==
    /\ models_loaded = TRUE
    /\ nlp = "en_core_web_sm"
    /\ model_control = "model_control"
    /\ weights_control = "weights_control"
    /\ model_alz = "model_alz"
    /\ weights_alz = "weights_alz"
    /\ vectorizer = [artifact |-> "vectorizer.pkl", tokenizer |-> "_safe_tokenize",
                     transform |-> TRUE]

\* the service once load_models has succeeded, no request made yet
Loaded ==
    /\ ServiceLoaded
    /\ call = NoCall
    /\ batch = NoBatch
    /\ load_call = [pc |-> "returned", exc |-> ""]
    /\ db = NoRecords
    /\ http = NoRequest

\* analyze_text calls of NumThreads request threads on the loaded service,
\* their steps interleaved in every order
InitConcurrent ==
    /\ Loaded
    /\ calls = [t \in Threads |-> NoCall]
    /\ arg = <<>>
    /\ ret = NoRet

NextConcurrent ==
    \E t \in Threads :
        \/ \E text \in BatchTexts : ThreadCall(t, text)
        \/ ThreadPreprocess(t, Docs)
        \/ ThreadVectorize(t)
        \/ ThreadScoreControl(t, BatchProbs)
        \/ ThreadScoreAlz(t, BatchProbs)
        \/ ThreadFails(t)
        \/ ThreadDecide(t)
        \/ ThreadExtractFeatures(t)
        \/ ThreadInterpret(t)
        \/ ThreadReturn(t)

SpecConcurrent == InitConcurrent /\ [][NextConcurrent]_vars

\* the requests of the doctors to the server that has loaded its models,
\* handled one after the other in any order
InitRequests == Loaded /\ arg = <<>> /\ ret = NoRet /\ calls = <<>>

NextRequests ==
    \E user \in Users :
        \/ \E data \in PatientData : CreatePatient(user, data)
        \/ GetPatients(user)
        \/ \E patient_id \in RequestedIds :
              \/ GetPatient(user, patient_id)
              \/ \E data \in PatientData : UpdatePatient(user, patient_id, data)
              \/ GetPatientAnalyses(user, patient_id)
              \/ \E st \in AssessmentStatuses : CreateAssessment(user, patient_id, st)
              \/ GetPatientAssessments(user, patient_id)
              \/ GetPatientProgress(user, patient_id)
        \/ \E patient_id \in RequestedIds \cup {NoPatientId},
              outcome \in HandlerResults \cup {[raised |-> TRUE]} :
                PostNlpAnalyze(user, patient_id, outcome)

SpecRequests == InitRequests /\ [][NextRequests]_vars

\* _pos_text_complete on every annotation of ProjectDocs
InitProject == Loaded /\ calls = <<>> /\ arg \in ProjectDocs /\ ret = NoRet

Project ==
    /\ ~ret.done
    /\ nlp # None
    /\ ret' = [done |-> TRUE, value |-> pos_text_complete(arg)]
    /\ UNCHANGED <<service, call, batch, arg, load_call, calls, db, http>>

SpecProject == InitProject /\ [][Project]_vars

\* _interpret_results on every argument of InterpretArgs
InitInterpret == Loaded /\ calls = <<>> /\ arg \in InterpretArgs /\ ret = NoRet

InterpretResults ==
    /\ ~ret.done
    /\ ret' = [done |-> TRUE,
               value |-> interpret_results(arg.prediction, arg.confidence,
                                           arg.control_prob, arg.alz_prob)]
    /\ UNCHANGED <<service, call, batch, arg, load_call, calls, db, http>>

SpecInterpret == InitInterpret /\ [][InterpretResults]_vars

\* _extract_linguistic_features on every annotation of FeatureDocs
InitFeatures == Loaded /\ calls = <<>> /\ arg \in FeatureDocs /\ ret = NoRet

ExtractLinguisticFeatures ==
    /\ ~ret.done
    /\ nlp # None
    /\ ret' = [done |-> TRUE, value |-> extract_linguistic_features(arg)]
    /\ UNCHANGED <<service, call, batch, arg, load_call, calls, db, http>>

SpecFeatures == InitFeatures /\ [][ExtractLinguisticFeatures]_vars

\* _extract_linguistic_features on every annotation of FeatureDocs, its try
\* block running through or raising
ExtractLinguisticFeaturesFails ==
    /\ ~ret.done
    /\ ret' = [done |-> TRUE, value |-> default_features]
    /\ UNCHANGED <<service, call, batch, arg, load_call, calls, db, http>>

SpecFeaturesOrFallback ==
    InitFeatures /\ [][ExtractLinguisticFeatures \/ ExtractLinguisticFeaturesFails]_vars

\* the tokenizer of the loaded vectorizer on every text of TokenizeTexts
InitTokenize == Loaded /\ calls = <<>> /\ arg \in TokenizeTexts /\ ret = NoRet

Tokenize ==
    /\ ~ret.done
    /\ vectorizer.tokenizer = "_safe_tokenize"
    /\ ret' = [done |-> TRUE, value |-> safe_tokenize(arg)]
    /\ UNCHANGED <<service, call, batch, arg, load_call, calls, db, http>>

SpecTokenize == InitTokenize /\ [][Tokenize]_vars

---------------------------------------------------------------------------
(* Properties *)

NotLoadedError == "RuntimeError: Models not loaded"
TextTooShortError == "ValueError: Text must be at least 10 characters long"

\* len(text), a missing text having no characters
TextLen(text) == IF text = TextNone THEN 0 ELSE Len(text)

\* C1: in every result analyze_text returns, prediction is 1 if and only if
\* the control classifier's probability is greater than the condition
\* classifier's, and 0 otherwise; equal probabilities give prediction 0.
C1_PredictionRule ==
    call.pc = "returned" =>
        /\ call.result.control_probability = call.prob_control
        /\ call.result.alzheimer_probability = call.prob_alz
        /\ call.result.prediction \in {0, 1}
        /\ call.result.prediction = 1 <=> call.prob_control > call.prob_alz
        /\ call.prob_control = call.prob_alz => call.result.prediction = 0

\* a result returned for two equal classifier outputs
C1_Witness ==
    /\ call.pc = "returned"
    /\ call.prob_control = 80
    /\ call.prob_alz = 80
    /\ call.result.prediction = 0

\* C2: in every result analyze_text returns, confidence is the control
\* classifier's positive-class probability, whichever class wins.
C2_ConfidenceIsControl ==
    call.pc = "returned" =>
        /\ call.result.confidence = call.prob_control
        /\ call.result.confidence = call.result.control_probability

\* a result in which the condition classifier has the larger probability
C2_Witness ==
    /\ call.pc = "returned"
    /\ call.result.prediction = 0
    /\ call.prob_alz = 100
    /\ call.result.confidence = 30

\* C3: _interpret_results returns "High" exactly when confidence >= 0.8 and
\* prediction = 1, "Low" exactly when confidence >= 0.8 and prediction = 0,
\* and "Medium" in every other case.
C3_RiskTiers ==
    ret.done =>
        /\ ret.value[1] = "High" <=> (arg.confidence >= 80 /\ arg.prediction = 1)
        /\ ret.value[1] = "Low" <=> (arg.confidence >= 80 /\ arg.prediction = 0)
        /\ ret.value[1] = "Medium" <=> arg.confidence < 80
        /\ ret.value[1] \in {"High", "Low", "Medium"}

\* the boundary value 0.8 with prediction 1
C3_Witness ==
    /\ ret.done
    /\ arg.confidence = 80
    /\ arg.prediction = 1
    /\ ret.value[1] = "High"

\* C4: on a loaded service, analyze_text rejects every text of at most 9
\* characters with the input error and does not reject any text of exactly
\* 10 characters for its length.
C4_TenCharactersAccepted ==
    (call.pc # "idle" /\ call.exc # NotLoadedError) =>
        /\ TextLen(call.text) <= 9 =>
              (call.pc = "raised" /\ call.exc = TextTooShortError)
        /\ TextLen(call.text) = 10 => call.exc # TextTooShortError

\* C5: a call refused because the models are not loaded or the text is
\* missing or too short has run no step of the pipeline, has assigned no
\* local of the pipeline and returns no result record.
C5_RefusedBeforePipeline ==
    (call.pc = "raised" /\ call.exc \in {NotLoadedError, TextTooShortError}) =>
        /\ call.trace = <<>>
        /\ call.logged = <<>>
        /\ call.result = NoResult
        /\ call.preprocessed_text = <<>>
        /\ call.text_vector = None
        /\ call.prob_control = -1
        /\ call.prob_alz = -1
        /\ call.prediction = -1
        /\ call.linguistic_features = NoFeatures
        /\ call.risk_level = ""

\* a loaded service refusing a text that is too short
C5_Witness ==
    /\ models_loaded
    /\ call.pc = "raised"
    /\ call.exc = TextTooShortError
    /\ call.text = Rep("a", 9)
    /\ call.trace = <<>>

\* an entry of batch_analyze's list is an error record
IsErrorRecord(entry) == "error" \in DOMAIN entry

\* C6: on a loaded service batch_analyze never raises, handles the texts in
\* input order, and returns one entry per text, the k-th entry being what
\* the analyze_text call on the k-th text returned or the error record of
\* what it raised; a failed item does not stop the items after it.
C6_BatchProcessesEveryItem ==
    /\ (batch.pc = "raised" => (batch.exc = NotLoadedError /\ batch.results = <<>>))
    /\ Len(batch.outcomes) = Len(batch.results)
    /\ \A k \in 1..Len(batch.outcomes) : batch.outcomes[k].text = batch.texts[k]
    /\ batch.pc = "returned" =>
          /\ Len(batch.results) = Len(batch.texts)
          /\ \A k \in 1..Len(batch.results) :
                IF batch.outcomes[k].pc = "returned"
                THEN batch.results[k] = batch.outcomes[k].result
                ELSE IsErrorRecord(batch.results[k])

\* a returned batch whose first text failed and whose second text succeeded
C6_Witness ==
    /\ batch.pc = "returned"
    /\ Len(batch.texts) = 2
    /\ batch.outcomes[1].pc = "raised"
    /\ batch.outcomes[2].pc = "returned"
    /\ IsErrorRecord(batch.results[1])
    /\ batch.results[2] = batch.outcomes[2].result

\* C7: an entry of batch_analyze's list is an error record if and only if
\* analyze_text raised for the text at that position, and the text_index of
\* an error record is the (zero-based) position of its text in the input.
C7_ErrorRecordsIndexed ==
    \A k \in 1..Len(batch.results) :
        /\ IsErrorRecord(batch.results[k]) <=> batch.outcomes[k].pc = "raised"
        /\ IsErrorRecord(batch.results[k]) => batch.results[k].text_index = k - 1

\* an error record for the second text of a batch
C7_Witness ==
    /\ Len(batch.results) = 2
    /\ ~IsErrorRecord(batch.results[1])
    /\ IsErrorRecord(batch.results[2])
    /\ batch.results[2].text_index = 1
    /\ batch.texts[2] = <<>>

\* the zeroed record of the claim, written out
ZeroFeatures ==
    [word_count |-> 0, sentence_count |-> 0, avg_words_per_sentence |-> 0,
     lexical_diversity |-> 0, pos_distribution |-> <<>>]

\* C8: when feature extraction fails inside analyze_text the call does not
\* raise; linguistic_features is the zeroed record, and the result returned
\* carries it together with the prediction, confidence, probabilities and
\* risk level computed from the two classifier outputs.
C8_FeatureFailureDegrades ==
    (\E j \in 1..Len(call.logged) : call.logged[j] = FeatureErrorLog) =>
        /\ call.pc \in {"interpret", "return", "returned"}
        /\ call.linguistic_features = ZeroFeatures
        /\ call.pc = "returned" =>
              /\ call.result.linguistic_features = ZeroFeatures
              /\ call.result.prediction = (IF call.prob_control > call.prob_alz THEN 1 ELSE 0)
              /\ call.result.confidence = call.prob_control
              /\ call.result.control_probability = call.prob_control
              /\ call.result.alzheimer_probability = call.prob_alz
              /\ call.result.risk_level =
                    (IF call.prob_control < 80 THEN "Medium"
                     ELSE IF call.prob_control > call.prob_alz THEN "High" ELSE "Low")

\* a result returned after feature extraction failed
C8_Witness ==
    /\ call.pc = "returned"
    /\ call.logged = <<FeatureErrorLog>>
    /\ call.result.linguistic_features = ZeroFeatures
    /\ call.result.prediction = 1
    /\ call.result.risk_level = "High"

PipelineTrace ==
    <<"annotate", "project", "vectorize", "score_control", "score_alz",
      "decide", "extract_features", "interpret">>

\* C9: when annotation, vectorization or a classifier invocation fails, the
\* call raises and returns no result record; every result returned comes
\* from a call that ran all those steps, and its prediction, confidence and
\* probabilities are those of the classifier outputs, never defaults.
C9_PipelineFailureIsFatal ==
    /\ (\E j \in 1..Len(call.logged) : call.logged[j] = AnalysisErrorLog) =>
          (call.pc = "raised" /\ call.result = NoResult)
    /\ call.pc = "raised" => call.result = NoResult
    /\ call.pc = "returned" =>
          /\ call.trace = PipelineTrace
          /\ call.prob_control \in Probs
          /\ call.prob_alz \in Probs
          /\ call.result.control_probability = call.prob_control
          /\ call.result.alzheimer_probability = call.prob_alz
          /\ call.result.confidence = call.prob_control
          /\ call.result.prediction = (IF call.prob_control > call.prob_alz THEN 1 ELSE 0)

\* a call that raised because the condition classifier failed
C9_Witness ==
    /\ call.pc = "raised"
    /\ call.trace = <<"annotate", "project", "vectorize", "score_control", "score_alz">>
    /\ call.logged = <<AnalysisErrorLog>>
    /\ call.prob_control = 80
    /\ call.result = NoResult

\* the full category name of a POS code: its entry in the table, the code
\* itself when the table has none
CategoryName(code) ==
    IF \E i \in 1..Len(pos_dictionary) : pos_dictionary[i].word = code
    THEN pos_dictionary[CHOOSE i \in 1..Len(pos_dictionary) :
                            pos_dictionary[i].word = code].initial
    ELSE code

\* the reference projection: for each token in order, its literal text
\* followed by its category name, all joined by single spaces
ReferenceProjection(doc) ==
    JoinSpace([i \in 1..Len(doc.tokens) |->
                  doc.tokens[i].text \o <<SP>> \o CategoryName(doc.tokens[i].pos_)])

\* C10: for every annotated token sequence, _pos_text_complete returns the
\* reference projection.
C10_ProjectionIsReference ==
    ret.done => ret.value = ReferenceProjection(arg)

\* the projection in which only the tag of each token is rewritten
TagOnlyProjection(doc) ==
    JoinSpace([i \in 1..Len(doc.tokens) |->
                  doc.tokens[i].text \o <<SP>> \o pos_complete(doc.tokens[i].pos_)])

\* C11: projection leaves the literal text of every token as it is, also
\* when that text contains a POS code; only the tags are rewritten.
C11_LiteralTextKept ==
    ret.done => ret.value = TagOnlyProjection(arg)

\* the projection in which tags that are not keys of the table stay as
\* they are, whatever becomes of the rest
UnknownKeptProjection(doc) ==
    JoinSpace([i \in 1..Len(doc.tokens) |->
                  pos_complete(doc.tokens[i].text) \o <<SP>> \o
                  (IF doc.tokens[i].pos_ \in PosCodes
                   THEN pos_complete(doc.tokens[i].pos_)
                   ELSE doc.tokens[i].pos_)])

HasUnknownCode(doc) ==
    \E i \in 1..Len(doc.tokens) : doc.tokens[i].pos_ \notin PosCodes

\* C12: a token whose POS code is not a key of the table is projected
\* with that code unchanged, and the projection of its text returns.
C12_UnknownCodePassedThrough ==
    (ret.done /\ HasUnknownCode(arg)) => ret.value = UnknownKeptProjection(arg)

\* the projection of a text with an EOL token followed by an untagged one
C12_Witness ==
    /\ ret.done
    /\ Len(arg.tokens) = 2
    /\ arg.tokens[1].pos_ = UnknownCode
    /\ arg.tokens[2].pos_ = NoTagCode
    /\ arg.tokens[1].text = Word_and
    /\ ret.value = Word_and \o <<SP>> \o UnknownCode \o <<SP>> \o Word_and \o <<SP>>

\* the punctuation of the claim: string.punctuation and the listed marks
Punctuation == AsciiPunctuation \cup ExtendedMarks

\* the first run of characters of s that are neither punctuation nor
\* whitespace
RECURSIVE WordRun(_)
WordRun(s) ==
    IF s = <<>> \/ Head(s) \in Whitespace \cup Punctuation THEN <<>>
    ELSE <<Head(s)>> \o WordRun(Tail(s))

\* every punctuation character a token of its own, every maximal run of
\* other non-whitespace characters one token
RECURSIVE PunctuationSplit(_)
PunctuationSplit(s) ==
    IF s = <<>> THEN <<>>
    ELSE IF Head(s) \in Whitespace THEN PunctuationSplit(Tail(s))
    ELSE IF Head(s) \in Punctuation THEN <<<<Head(s)>>>> \o PunctuationSplit(Tail(s))
    ELSE <<WordRun(s)>> \o PunctuationSplit(SubSeq(s, Len(WordRun(s)) + 1, Len(s)))

\* C13: the installed tokenizer makes every punctuation character a token of
\* its own and keeps every maximal run of other non-whitespace characters
\* as one token, unchanged; no token holds a character the text lacks.
C13_SplitsOnPunctuation ==
    ret.done => ret.value = PunctuationSplit(arg)

\* C14: when the last load_models call failed, at whatever stage, the
\* service is not ready: models_loaded is false, so that analyze_text and
\* batch_analyze refuse to run.
C14_FailedLoadLeavesServiceNotReady ==
    load_call.pc = "raised" => ~models_loaded

\* every artifact the service holds is fit for the pipeline
ArtifactsCompatible ==
    /\ weights_control = "weights_control"
    /\ model_alz = "model_alz"
    /\ vectorizer.transform
    /\ vectorizer.tokenizer = "_safe_tokenize"

\* C15: a load_models call on an incompatible artifact (weights of another
\* dimension, a classifier without predict_proba, a vectorizer without
\* transform or tokenizer) raises, and models_loaded does not become true.
C15_IncompatibleArtifactsFailStartup ==
    (models_loaded \/ load_call.pc = "returned") => ArtifactsCompatible

\* C16: every step of analyze_text and of batch_analyze, of a call that
\* succeeds or of one that fails, leaves the annotator, both classifiers,
\* both weight vectors, the vectorizer with its tokenizer and models_loaded
\* as they are; only load_models assigns them.
C16_RequestsLeaveServiceUnchanged ==
    [][(call' # call \/ batch' # batch) => service' = service]_vars

\* a batch whose first text failed inside the pipeline and whose second text
\* was analysed, on the service as load_models left it
C16_Witness ==
    /\ ServiceLoaded
    /\ batch.pc = "returned"
    /\ Len(batch.outcomes) = 2
    /\ batch.outcomes[1].pc = "raised"
    /\ batch.outcomes[1].text = Rep("a", MinTextLen)
    /\ batch.outcomes[2].pc = "returned"
    /\ batch.outcomes[2].text = Rep("a", MinTextLen)

\* whether the frame c has logged the failure of feature extraction
FeaturesFailed(c) == \E k \in 1..Len(c.logged) : c.logged[k] = FeatureErrorLog

\* C17: in every interleaving of the calls of the request threads, a call
\* that returns returns the prediction, confidence, probabilities, risk
\* level, features and preprocessed text that analyze_text returns when it
\* runs alone on the same text with the same answers of the annotator and
\* the classifiers.
C17_ConcurrentCallsAsAlone ==
    \A t \in Threads :
        calls[t].pc = "returned" =>
            calls[t].result =
                analyze_text_alone(calls[t].text, calls[t].doc, calls[t].prob_control,
                                   calls[t].prob_alz, FeaturesFailed(calls[t])).result

\* the first thread's call has returned its own result while the second
\* thread's call, scored differently, is still in the pipeline
C17_Witness ==
    /\ calls[1].pc = "returned"
    /\ calls[1].result.prediction = 1
    /\ calls[1].result.control_probability = calls[1].prob_control
    /\ calls[2].pc \in {"decide", "extract", "interpret", "return"}
    /\ calls[2].prob_control < calls[2].prob_alz

\* the positions of the alphabetic tokens of doc that count as words
AlphabeticTokens(doc) ==
    { i \in 1..Len(doc.tokens) :
        /\ ~doc.tokens[i].is_space
        /\ ~doc.tokens[i].is_punct
        /\ doc.tokens[i].is_alpha }

\* C18: the lexical_diversity feature extraction returns lies between 0
\* and 1 (1000 thousandths), and is 0 when the text has no alphabetic token.
C18_LexicalDiversityInUnitInterval ==
    ret.done =>
        /\ ret.value.lexical_diversity >= 0
        /\ ret.value.lexical_diversity <= 1000
        /\ (AlphabeticTokens(arg) = {} => ret.value.lexical_diversity = 0)

\* features of a text that has words, none of them alphabetic
C18_Witness ==
    /\ ret.done
    /\ AlphabeticTokens(arg) = {}
    /\ ret.value.word_count > 0
    /\ ret.value.lexical_diversity = 0

\* C19 as stated: with at least one alphabetic token, and no two alphabetic
\* tokens having the same text, lexical_diversity is 1.
C19_DistinctTokensGiveOne ==
    (/\ ret.done
     /\ AlphabeticTokens(arg) # {}
     /\ \A i, j \in AlphabeticTokens(arg) :
           i # j => arg.tokens[i].text # arg.tokens[j].text)
    => ret.value.lexical_diversity = 1000

\* C19 amended: with at least one alphabetic token, and no two alphabetic
\* tokens having the same text once lower-cased, lexical_diversity is 1.
C19_DistinctLowercasedTokensGiveOne ==
    (/\ ret.done
     /\ AlphabeticTokens(arg) # {}
     /\ \A i, j \in AlphabeticTokens(arg) :
           i # j => Lower(arg.tokens[i].text) # Lower(arg.tokens[j].text))
    => ret.value.lexical_diversity = 1000

\* features of a text with two different words and a number
C19_Witness ==
    /\ ret.done
    /\ Cardinality(AlphabeticTokens(arg)) = 2
    /\ \E i \in 1..Len(arg.tokens) : arg.tokens[i].text = Word_3
    /\ ret.value.lexical_diversity = 1000
    /\ ret.value.word_count = 3

\* C20: without sentences avg_words_per_sentence is 0; the division is
\* never carried out with a zero divisor.
C20_NoSentencesGiveZeroAverage ==
    (ret.done /\ ret.value.sentence_count = 0) => ret.value.avg_words_per_sentence = 0

\* features of the annotation without tokens and sentences
C20_Witness ==
    /\ ret.done
    /\ arg.n_sents = 0
    /\ ret.value.sentence_count = 0
    /\ ret.value.avg_words_per_sentence = 0

\* the number of tokens of the sequence ts that are neither whitespace nor
\* punctuation and, when code is not "any", carry the tag code
RECURSIVE CountWords(_, _)
CountWords(ts, code) ==
    IF ts = <<>> THEN 0
    ELSE (IF /\ ~Head(ts).is_space
             /\ ~Head(ts).is_punct
             /\ (code = "any" \/ Head(ts).pos_ = code)
          THEN 1 ELSE 0) + CountWords(Tail(ts), code)

\* C21: word_count is the number of annotated tokens that are neither
\* whitespace nor punctuation, and pos_distribution gives, for every POS
\* code such a token carries and for no other, the number of such tokens.
C21_CountsOverWords ==
    ret.done =>
        /\ ret.value.word_count = CountWords(arg.tokens, "any")
        /\ \A code \in AnnotatorCodes :
              IF CountWords(arg.tokens, code) > 0
              THEN /\ code \in DOMAIN ret.value.pos_distribution
                   /\ ret.value.pos_distribution[code] = CountWords(arg.tokens, code)
              ELSE code \notin DOMAIN ret.value.pos_distribution
        /\ DOMAIN ret.value.pos_distribution \subseteq AnnotatorCodes

\* features of a text with a word, a punctuation mark and a space
C21_Witness ==
    /\ ret.done
    /\ ret.value.word_count = 1
    /\ DOMAIN ret.value.pos_distribution = {<<"C","C","O","N","J">>}
    /\ ret.value.pos_distribution[<<"C","C","O","N","J">>] = 1
    /\ \E i \in 1..Len(arg.tokens) : arg.tokens[i].is_punct
    /\ \E i \in 1..Len(arg.tokens) : arg.tokens[i].is_space

\* the sum of the counts of the distribution d
RECURSIVE SumCounts(_)
SumCounts(d) ==
    IF DOMAIN d = {} THEN 0
    ELSE LET code == CHOOSE c \in DOMAIN d : TRUE
         IN  d[code] + SumCounts([c \in DOMAIN d \ {code} |-> d[c]])

\* C30: in every record feature extraction returns, the fallback record
\* of its except branch included, the counts of pos_distribution add up to
\* word_count.
C30_DistributionSumsToWordCount ==
    ret.done => SumCounts(ret.value.pos_distribution) = ret.value.word_count

\* features of a text with words of two categories and a punctuation mark
C30_Witness ==
    /\ ret.done
    /\ Cardinality(DOMAIN ret.value.pos_distribution) = 2
    /\ ret.value.word_count = 2
    /\ \E i \in 1..Len(arg.tokens) : arg.tokens[i].is_punct

\* C22: the template of the narrative is the condition-indicated one for
\* prediction 1 and the control-like one otherwise, and any other call of
\* _interpret_results with the same prediction selects the same template,
\* whatever its confidence, probabilities and risk level.
C22_TemplateDependsOnPredictionOnly ==
    ret.done =>
        /\ ret.value[2].template =
              (IF arg.prediction = 1 THEN "cognitive decline" ELSE "normal ranges")
        /\ \A other \in InterpretArgs :
              other.prediction = arg.prediction =>
                  interpret_results(other.prediction, other.confidence,
                                    other.control_prob, other.alz_prob)[2].template
                      = ret.value[2].template

\* the condition-indicated template selected at a risk level that is not
\* "High"
C22_Witness ==
    /\ ret.done
    /\ arg.prediction = 1
    /\ arg.confidence = 59
    /\ ret.value[1] = "Medium"
    /\ ret.value[2].template = "cognitive decline"

\* whether s is the beginning of the sequence t
IsPrefix(s, t) == Len(s) <= Len(t) /\ s = SubSeq(t, 1, Len(s))

\* C24: the steps of a call are run in the order projection, vectorization,
\* control and condition classifier, decision, feature extraction,
\* interpretation, none of them twice; a call that returns has run them all,
\* its features are those of the annotation of its own text (or the
\* fallback record) and its risk level and narrative are those of the
\* decision's outputs.
C24_StepsInFixedOrderOnce ==
    /\ IsPrefix(call.trace, PipelineTrace)
    /\ call.pc = "returned" =>
          /\ call.trace = PipelineTrace
          /\ call.result.linguistic_features
                \in {extract_linguistic_features(call.doc), default_features}
          /\ <<call.result.risk_level, call.result.clinical_interpretation>> =
                interpret_results(call.result.prediction, call.result.confidence,
                                  call.result.control_probability,
                                  call.result.alzheimer_probability)

\* a returned call whose features are those of its text and whose
\* narrative states the decision's probabilities
C24_Witness ==
    /\ call.pc = "returned"
    /\ call.trace = PipelineTrace
    /\ call.doc = Doc_words
    /\ call.result.linguistic_features.word_count = 2
    /\ call.result.clinical_interpretation.control_prob = 61
    /\ call.result.clinical_interpretation.alz_prob = 60
    /\ call.result.risk_level = "Medium"

\* C25: in every result analyze_text returns, risk level "High" implies
\* control_probability >= 0.8 and control_probability > alzheimer_probability,
\* and "Low" implies alzheimer_probability >= control_probability >= 0.8.
C25_RiskLevelAndProbabilities ==
    call.pc = "returned" =>
        /\ call.result.risk_level = "High" =>
              /\ call.result.control_probability >= 80
              /\ call.result.control_probability > call.result.alzheimer_probability
        /\ call.result.risk_level = "Low" =>
              /\ call.result.alzheimer_probability >= call.result.control_probability
              /\ call.result.control_probability >= 80

\* a "Low" result at the boundary: both probabilities 0.8
C25_Witness ==
    /\ call.pc = "returned"
    /\ call.result.risk_level = "Low"
    /\ call.result.control_probability = 80
    /\ call.result.alzheimer_probability = 80

\* the calls of thread t and thread u were given the same text and the
\* annotator answered both with the same annotation
SameTextAnnotated(t, u) ==
    /\ calls[t].doc # NoDoc
    /\ calls[t].text = calls[u].text
    /\ calls[t].doc = calls[u].doc

---------------------------------------------------------------------------
(* The request handlers of main.py *)

\* C26: after any sequence of create_patient, create_assessment and
\* analyze_text requests (the handlers are coroutines that never await, so
\* the event loop runs each to its end before the next), the patient_id,
\* assessment_id and analysis_id values stored in a table are pairwise
\* different, and no request fails on the unique constraint of its
\* generated identifier.
C26_GeneratedIdsDistinct ==
    /\ \A i, j \in 1..Len(db.patients) :
          i # j => db.patients[i].patient_id # db.patients[j].patient_id
    /\ \A i, j \in 1..Len(db.assessments) :
          i # j => db.assessments[i].assessment_id # db.assessments[j].assessment_id
    /\ \A i, j \in 1..Len(db.nlp_analyses) :
          i # j => db.nlp_analyses[i].analysis_id # db.nlp_analyses[j].analysis_id
    /\ http.detail \notin {IntegrityUnique, AnalyzeNotUnique}

\* a second patient has just been created
C26_Witness ==
    /\ http.endpoint = "create_patient"
    /\ http.status = 201
    /\ Len(db.patients) >= 2
    /\ http.body[1].patient_id = <<"P", "0", "0", "2">>

\* C27: a POST /nlp/analyze request naming a patient_id that no patient of
\* the current user has is answered with 404 "Patient not found", with no
\* analysis in the response and no record stored.
C27_UnknownPatientGets404 ==
    [][\A user \in Users, patient_id \in RequestedIds,
          outcome \in HandlerResults \cup {[raised |-> TRUE]} :
            ( /\ PostNlpAnalyze(user, patient_id, outcome)
              /\ owned_patients(patient_id, user) = <<>> )
            => /\ http'.status = 404
               /\ http'.detail = NotFound
               /\ http'.body = <<>>
               /\ db' = db]_vars

\* C28: a POST /nlp/analyze request without patient_id whose text the
\* service analyses is answered with the prediction, and a record of the
\* analysis is stored with no patient.
C28_AnalysisWithoutPatientStored ==
    [][\A user \in Users, outcome \in HandlerResults :
            PostNlpAnalyze(user, NoPatientId, outcome)
            => /\ http'.status = 200
               /\ http'.body = <<[analysis_id |->
                                     formatted_id(<<"N", "L", "P">>,
                                                  next_number(db.nlp_analyses)),
                                  result |-> outcome]>>
               /\ Len(db'.nlp_analyses) = Len(db.nlp_analyses) + 1
               /\ db'.nlp_analyses[Len(db'.nlp_analyses)].patient_id = NULL]_vars

\* the endpoints that take the patient from the path or the request body
\* and look it up among the patients of the current user, and get_patients
ScopedEndpoints ==
    {"get_patients", "get_patient", "update_patient", "get_patient_analyses",
     "create_assessment", "get_patient_assessments", "get_patient_progress"}

\* the doctor of the patient a row of a response is, or belongs to
RowDoctor(row) ==
    IF "doctor_id" \in DOMAIN row THEN row.doctor_id
    ELSE db.patients[row.patient_id].doctor_id

\* C29: a request to get_patients, get_patient, update_patient,
\* get_patient_analyses, create_assessment, get_patient_assessments or
\* get_patient_progress returns only rows of patients whose doctor_id is
\* the requesting user, changes only such patients, attaches assessments
\* only to such patients, and, when it names a patient the user does not
\* have, gets 404 and leaves the tables as they were.
C29_OnlyOwnPatients ==
    [][http'.endpoint \in ScopedEndpoints =>
          /\ Len(db'.patients) = Len(db.patients)
          /\ \A k \in 1..Len(db.patients) :
                db'.patients[k] # db.patients[k]
                => db.patients[k].doctor_id = http'.user
          /\ db'.nlp_analyses = db.nlp_analyses
          /\ SubSeq(db'.assessments, 1, Len(db.assessments)) = db.assessments
          /\ \A k \in (Len(db.assessments) + 1)..Len(db'.assessments) :
                RowDoctor(db'.assessments[k]) = http'.user
          /\ \A k \in 1..Len(http'.body) : RowDoctor(http'.body[k]) = http'.user
          /\ ( /\ http'.patient_id # NoPatientId
               /\ owned_patients(http'.patient_id, http'.user) = <<>> )
             => (http'.status = 404 /\ http'.detail = NotFound /\ db' = db)]_vars

\* an update of a patient of another doctor has just been refused
C29_Witness ==
    /\ http.endpoint = "update_patient"
    /\ http.status = 404
    /\ \E k \in 1..Len(db.patients) :
          /\ db.patients[k].patient_id = http.patient_id
          /\ db.patients[k].doctor_id # http.user

============================================================================
